---------------------------- MODULE Spec2Model ----------------------------
(***************************************************************************)
(* A model of the confinode search/load engine (class Confinode).          *)
(*                                                                         *)
(* The engine is a generator (searchConfig / loadConfig) that yields       *)
(* Requests to a driver; the driver fulfils each Request through the       *)
(* Directory Gateway and resumes the generator with the value, or throws   *)
(* the gateway's error into it.  One action starts a call, one resumes the *)
(* suspended generator up to its next yield or its return, one clears the  *)
(* caches.                                                                 *)
(*                                                                         *)
(* Paths are sequences of names, a name is a sequence of dot-separated     *)
(* tokens: /d/rc.yaml is << <<"d">>, <<"rc", "yaml">> >>.                    *)
(***************************************************************************)
EXTENDS Integers, Sequences, FiniteSets, TLC

\* ------------------------------------------------------------------ bounds
\* Depth of the directory chain /d/d/.../d below the filesystem root.
MaxDepth == 2
\* Number of search/load calls made on the instance in one behaviour.
MaxCalls == 2

\* ------------------------------------------------------------------- paths
Root == << >>
DirName == <<"d">>
\* The directory at depth k of the chain.
Chain(k) == [i \in 1..k |-> DirName]
\* A directory outside the chain (a sibling of /d).
Side == << <<"t">> >>
\* The process's current working directory.
Cwd == Chain(MaxDepth)
\* The user's home directory.
Home == Chain(1)
\* The relative path ".".
Dot == << <<".">> >>

IsRelative(p) == Len(p) > 0 /\ p[1] = Dot[1]

\* path.dirname: the root and "." are their own parents.
dirname(p) ==
  IF p = Root \/ p = Dot THEN p ELSE SubSeq(p, 1, Len(p) - 1)

\* path.basename: the last name of a path.
basename(p) == p[Len(p)]

\* path.join of a folder and a relative path.
join(folder, rel) == folder \o rel

\* path.resolve(process.cwd(), p): absolute paths are kept, relative ones are
\* taken from the current working directory.
resolve(p) == IF IsRelative(p) THEN Cwd \o Tail(p) ELSE p

\* p is d or below d.
IsUnder(p, d) == Len(d) <= Len(p) /\ SubSeq(p, 1, Len(d)) = d
StrictAncestor(a, d) == a # d /\ IsUnder(d, a)

\* String.startsWith(stem + '.') on a file name: the tokens of the stem, then
\* at least one more token.
startsWith(fileName, stem) ==
  /\ Len(fileName) > Len(stem)
  /\ SubSeq(fileName, 1, Len(stem)) = stem

\* String.slice(baseName.length): what follows "stem.".
slice(fileName, stem) == SubSeq(fileName, Len(stem) + 1, Len(fileName))

\* ------------------------------------------------------------ file names
RcYaml == <<"rc", "yaml">>
RcJson == <<"rc", "json">>
RcCfg == <<"rc", "cfg">>
PkgJson == <<"pkg", "json">>
NotesTxt == <<"notes", "txt">>

\* --------------------------------------------------------------- results
\* undefined, the explicit not-found value.
Undefined == [found |-> FALSE]
\* new ConfinodeResult(result, {fileName, extends: []}): id is the object's
\* identity, loader stands for the parsed value.
ConfinodeResult(fileName, loader, id) ==
  [found |-> TRUE, fileName |-> fileName, loader |-> loader, id |-> id]

\* ------------------------------------------------------------- FiniteSeq
Range(s) == {s[i] : i \in 1..Len(s)}

\* --------------------------------------------------------------- loaders
\* "no loader": the undefined loader reference.
NoLoader == [name |-> "", loader |-> ""]
LoaderRef(name, loader) == [name |-> name, loader |-> loader]

\* The built-in loaders of the Loader Registry, by suffix.
BuiltInLoaders == (<<"yaml">> :> "yaml") @@ (<<"json">> :> "json")

\* The custom loaders an application may register, by suffix.
NoCustomLoaders == [x \in {} |-> ""]
SomeCustomLoaders == (<<"cfg">> :> "custom") @@ (<<"yaml">> :> "custom")

\* private readonly loaderManager: LoaderManager = new LoaderManager()
\* The registry is built without the customLoaders option.
loaderManager(parameters) == [custom |-> NoCustomLoaders]

\* LoaderManager.getLoaderFor(modulePaths, fileName, extension?): custom
\* loaders first, then the built-in ones; without an explicit extension the
\* suffix is the file name's last token.
getLoaderFor(manager, fileName, extension) ==
  LET ext == IF extension = << >> THEN <<fileName[Len(fileName)]>> ELSE extension
  IN IF ext \in DOMAIN manager.custom
       THEN LoaderRef(manager.custom[ext], manager.custom[ext])
     ELSE IF ext \in DOMAIN BuiltInLoaders
       THEN LoaderRef(BuiltInLoaders[ext], BuiltInLoaders[ext])
     ELSE NoLoader

\* isExisting(value): neither undefined nor null.
isExisting(loader) == loader # NoLoader

\* -------------------------------------------------------- file descriptions
\* A basename description is a string (a relative path whose last name is the
\* stem), an explicit one is {name, loader}.
Basename(path) == [base |-> TRUE, path |-> path, loader |-> ""]
Explicit(path, loader) == [base |-> FALSE, path |-> path, loader |-> loader]
isFileBasename(description) == description.base

\* The options.files of the instance, in priority order.
Files ==
  << Basename(<< <<"rc">> >>),
     Explicit(<<RcYaml>>, "alt"),
     Explicit(<<PkgJson>>, "json") >>

\* Another options.files: basename descriptions only, two of them for files
\* of the folder itself and one for a file of its subfolder "d".
StemFiles ==
  << Basename(<< <<"rc">> >>),
     Basename(<< <<"pkg">> >>),
     Basename(<< DirName, <<"rc">> >>) >>

\* ------------------------------------------------------------- filesystem
Deep == Chain(MaxDepth)
ChainDirs == {Chain(k) : k \in 0..MaxDepth}
AllDirs == ChainDirs \cup {Side}

\* What the deepest directory holds: its listing (in listing order), the
\* content kind of each file, and the requests that fail there.
LowKinds ==
  { "none", "ok", "two", "empty", "void", "corrupt", "invalid", "unlistable",
    "unstatable", "cfg", "pkg", "altOnly", "emptyPkg", "emptyAll" }

LowList(low) ==
  CASE low = "none" -> <<NotesTxt>>
    [] low = "two" -> <<RcJson, RcYaml, NotesTxt>>
    [] low = "cfg" -> <<RcCfg, NotesTxt>>
    [] low = "pkg" -> <<PkgJson, NotesTxt>>
    [] low \in {"emptyPkg", "emptyAll"} -> <<RcYaml, PkgJson, NotesTxt>>
    [] OTHER -> <<RcYaml, NotesTxt>>

LowContent(low, name) ==
  IF name = NotesTxt \/ (name = PkgJson /\ low # "emptyAll") THEN "ok"
  ELSE CASE low \in {"empty", "emptyPkg", "emptyAll"} -> "empty"
         [] low \in {"void", "corrupt", "invalid", "altOnly"} -> low
         [] OTHER -> "ok"

LowFaults(low) ==
  CASE low = "unlistable" -> {<<"folderContent", Deep>>}
    [] low = "unstatable" ->
         {<<"isFolder", Deep>>} \cup {<<"fileExists", join(Deep, <<n>>)>> : n \in {RcYaml, PkgJson}}
    [] OTHER -> {}

\* The files a listing function holds.
FilesOf(list) == UNION {{join(d, <<n>>) : n \in Range(list[d])} : d \in DOMAIN list}

\* A filesystem: the deepest directory is of kind low, the chain directory at
\* depth good (if there is one, and it is not the deepest) holds one loadable
\* rc.yaml, every other directory is empty.
MakeFs(low, good) ==
  LET list == [d \in AllDirs |->
                 IF d = Deep THEN LowList(low)
                 ELSE IF good >= 0 /\ d = Chain(good) THEN <<RcYaml>>
                 ELSE << >>]
  IN [ list |-> list,
       content |-> [f \in FilesOf(list) |->
                      IF dirname(f) = Deep THEN LowContent(low, basename(f)) ELSE "ok"],
       faults |-> LowFaults(low) ]

\* ------------------------------------------------------- Directory Gateway
\* A Request: one I/O intention, carrying what is needed to fulfil it.
requestIsFolder(path) == [kind |-> "isFolder", path |-> path, loader |-> ""]
requestFileExits(path) == [kind |-> "fileExists", path |-> path, loader |-> ""]
requestFolderContent(path) == [kind |-> "folderContent", path |-> path, loader |-> ""]
requestLoadConfigFile(path, loader) ==
  [kind |-> "loadConfigFile", path |-> path, loader |-> loader]
NoRequest == [kind |-> "none", path |-> Root, loader |-> ""]

\* What a request is fulfilled with: a value, or an error thrown.
Value(v) == [ok |-> TRUE, val |-> v]
Thrown(id) == [ok |-> FALSE, val |-> id]

\* What a loader makes of a file: the raw content, undefined for an empty
\* file, or an error.
readAndParse(fs, path, loader) ==
  LET kind == fs.content[path]
  IN CASE kind = "corrupt" -> Thrown("loadingError")
       [] kind = "empty" -> Value([empty |-> TRUE, kind |-> kind])
       [] kind = "altOnly" /\ loader # "alt" -> Value([empty |-> TRUE, kind |-> kind])
       [] OTHER -> Value([empty |-> FALSE, kind |-> kind])

\* The gateway's answer to a request on filesystem fs.
Fulfil(fs, request) ==
  LET path == resolve(request.path)
  IN IF <<request.kind, path>> \in fs.faults THEN Thrown("loadingError")
     ELSE CASE request.kind = "isFolder" -> Value(path \in DOMAIN fs.list)
            [] request.kind = "fileExists" -> Value(path \in DOMAIN fs.content)
            [] request.kind = "folderContent" ->
                 IF path \in DOMAIN fs.list THEN Value(fs.list[path])
                 ELSE Thrown("loadingError")
            [] request.kind = "loadConfigFile" ->
                 IF path \in DOMAIN fs.content
                   THEN readAndParse(fs, path, request.loader)
                 ELSE Thrown("loadingError")

\* require.resolve(name, {paths: [folder]}): the file's path, or Root when
\* the name does not resolve (the exception is caught).
requireResolve(fs, name) ==
  IF resolve(name) \in DOMAIN fs.content THEN resolve(name) ELSE Root

\* ConfigDescription.parse(content, context): the typed value, undefined, or
\* a validation error.
parse(content) ==
  CASE content.kind = "invalid" -> Thrown("validation")
    [] content.kind = "void" -> Value(FALSE)
    [] OTHER -> Value(TRUE)

\* ------------------------------------------------------------ parameters
\* The instance's parameters after the constructor: the default options
\* overridden by the given ones.
Parameters(cache, searchStop, customLoaders) ==
  [ cache |-> cache,
    searchStop |-> searchStop,
    files |-> Files,
    customLoaders |-> customLoaders ]

\* export const defaultConfig
defaultConfig == Parameters(TRUE, Home, NoCustomLoaders)

\* ------------------------------------------------------------- the engine
\* The engine's state m: the instance (parameters, folderCache, contentCache,
\* the identities given to results so far), the suspended generator (pc, the
\* frames of searchConfigInFolder in stack, the locals), and what the call
\* has done so far (requests issued, messages logged, descriptions tried,
\* files that searchFileAndLoader returned).
NewInstance(parameters) ==
  [ parameters |-> parameters,
    folderCache |-> [x \in {} |-> << >>],
    contentCache |-> [x \in {} |-> Undefined],
    allocated |-> 0,
    pc |-> "idle",
    op |-> "none",
    arg |-> Root,
    stack |-> << >>,
    folder |-> Root,
    di |-> 0,
    file |-> Root,
    loader |-> NoLoader,
    req |-> NoRequest,
    ret |-> Undefined,
    raised |-> FALSE,
    requests |-> << >>,
    logged |-> << >>,
    tried |-> << >>,
    matches |-> << >> ]

\* The pcs at which the generator is suspended on a yield.
Suspended ==
  {"searchConfig", "searchFileAndLoader:content", "searchFileAndLoader:exists",
   "loadConfig", "loadConfigFile:content"}
\* The pcs at which no generator is running on the instance.
Finished == {"idle", "done"}

Top(m) == m.stack[Len(m.stack)]
Pop(stack) == SubSeq(stack, 1, Len(stack) - 1)

\* yield request: the generator is suspended at pc, the request is issued.
Yield(m, request, pc) ==
  [m EXCEPT !.req = request, !.pc = pc, !.requests = Append(@, request)]

\* return result (from searchConfig or loadConfig): the call is over.
Return(m, result) ==
  [m EXCEPT !.ret = result, !.pc = "done", !.req = NoRequest]

\* Confinode.log(level, messageId, ...parameters)
log(m, level, messageId, param) ==
  [m EXCEPT !.logged = Append(@, [level |-> level, id |-> messageId, param |-> param])]

\* The errors that are ConfinodeError instances.
ConfinodeErrors == {"fileNotFound", "noLoaderFound"}

\* Confinode.log(errorType, exception): a ConfinodeError is logged with its
\* own message, any other error as loadingError or internalError.
logError(m, errorType, exception) ==
  IF exception \in ConfinodeErrors THEN log(m, "error", exception, Root)
  ELSE IF errorType = "loading" THEN log(m, "error", "loadingError", Root)
  ELSE log(m, "error", "internalError", Root)

\* clearCache that forgets the folders' content only.
clearCacheFoldersOnly(m) ==
  [m EXCEPT !.folderCache = [x \in {} |-> << >>]]

\* Confinode.clearCache
clearCache(m) ==
  [m EXCEPT !.folderCache = [x \in {} |-> << >>],
            !.contentCache = [x \in {} |-> Undefined]]

\* ----------------------------------------------------------------- search
\* Confinode.searchConfig, up to its yield: is searchStart a folder?
searchConfig(m, searchStart) ==
  Yield([m EXCEPT !.op = "search", !.arg = searchStart, !.stack = << >>,
                  !.ret = Undefined, !.raised = FALSE,
                  !.requests = << >>, !.logged = << >>, !.tried = << >>,
                  !.matches = << >>],
        requestIsFolder(searchStart), "searchConfig")

\* searchConfigResume that searches from searchStart whatever the answer.
searchConfigResumeFromStart(m, answer) ==
  IF answer.ok
    THEN [m EXCEPT !.folder = m.arg, !.pc = "searchConfigInFolder", !.req = NoRequest]
  ELSE Return(logError(m, "internal", answer.val), Undefined)

\* Confinode.searchConfig, resumed: search from searchStart or from its
\* parent; an error thrown into the generator here is an internal error.
searchConfigResume(m, answer) ==
  IF answer.ok
    THEN [m EXCEPT !.folder = IF answer.val THEN m.arg ELSE dirname(m.arg),
                   !.pc = "searchConfigInFolder", !.req = NoRequest]
  ELSE Return(logError(m, "internal", answer.val), Undefined)

\* A call of searchConfigInFolder returns result: to searchConfig when it is
\* the outermost call, else to the calling frame, which goes on after its
\* recursive call.
searchConfigInFolderReturn(m, result) ==
  IF m.stack = << >> THEN Return(m, result)
  ELSE [m EXCEPT !.ret = result, !.pc = "searchConfigInFolderEnd"]

\* Confinode.searchConfigInFolder(m.folder), from its entry: a cached folder
\* returns its cached result, any other one starts on the descriptions.
searchConfigInFolder(m) ==
  LET absoluteFolder == resolve(m.folder)
      m1 == log(m, "trace", "searchInFolder", absoluteFolder)
  IN IF absoluteFolder \in DOMAIN m1.contentCache
       THEN searchConfigInFolderReturn(log(m1, "trace", "loadedFromCache", Root),
                                       m1.contentCache[absoluteFolder])
     ELSE [m1 EXCEPT !.stack = Append(@, absoluteFolder), !.di = 1,
                     !.pc = "searchConfigUsingDescriptions"]

\* searchConfigInFolderParent without the test of the stop folder.
searchConfigInFolderParentNoStop(m) ==
  LET absoluteFolder == Top(m)
      parentFolder == dirname(absoluteFolder)
  IN IF ~m.ret.found /\ parentFolder # absoluteFolder
       THEN [m EXCEPT !.folder = parentFolder, !.pc = "searchConfigInFolder"]
     ELSE [m EXCEPT !.pc = "searchConfigInFolderEnd"]

\* searchConfigInFolderParent that never searches in the parent folder.
searchConfigInFolderParentNever(m) ==
  [m EXCEPT !.pc = "searchConfigInFolderEnd"]

\* searchConfigInFolderParent that searches in the parent folder also when
\* this folder gave a result.
searchConfigInFolderParentAlways(m) ==
  LET absoluteFolder == Top(m)
      parentFolder == dirname(absoluteFolder)
  IN IF absoluteFolder # m.parameters.searchStop /\ parentFolder # absoluteFolder
       THEN [m EXCEPT !.folder = parentFolder, !.pc = "searchConfigInFolder"]
     ELSE [m EXCEPT !.pc = "searchConfigInFolderEnd"]

\* searchConfigInFolderParent that goes on in the stop folder, not in the
\* parent folder.
searchConfigInFolderParentToStop(m) ==
  LET absoluteFolder == Top(m)
      parentFolder == m.parameters.searchStop
  IN IF /\ ~m.ret.found
        /\ absoluteFolder # m.parameters.searchStop
        /\ parentFolder # absoluteFolder
       THEN [m EXCEPT !.folder = parentFolder, !.pc = "searchConfigInFolder"]
     ELSE [m EXCEPT !.pc = "searchConfigInFolderEnd"]

\* Confinode.searchConfigInFolder, after searchConfigUsingDescriptions gave
\* m.ret: search in the parent if nothing was found here, unless this is the
\* stop folder or the root.
searchConfigInFolderParent(m) ==
  LET absoluteFolder == Top(m)
      parentFolder == dirname(absoluteFolder)
  IN IF /\ ~m.ret.found
        /\ absoluteFolder # m.parameters.searchStop
        /\ parentFolder # absoluteFolder
       THEN [m EXCEPT !.folder = parentFolder, !.pc = "searchConfigInFolder"]
     ELSE [m EXCEPT !.pc = "searchConfigInFolderEnd"]

\* searchConfigInFolderEnd that never stores the frame's result.
searchConfigInFolderEndNoStore(m) ==
  searchConfigInFolderReturn([m EXCEPT !.stack = Pop(@)], m.ret)

\* searchConfigInFolderEnd that stores the frame's result whatever the cache
\* option is.
searchConfigInFolderEndAlwaysStore(m) ==
  searchConfigInFolderReturn(
    [m EXCEPT !.contentCache = (Top(m) :> m.ret) @@ @, !.stack = Pop(@)], m.ret)

\* Confinode.searchConfigInFolder, its last lines: cache the frame's result
\* and return it.
searchConfigInFolderEnd(m) ==
  LET absoluteFolder == Top(m)
      m1 == IF m.parameters.cache
              THEN [m EXCEPT !.contentCache = (absoluteFolder :> m.ret) @@ @]
            ELSE m
  IN searchConfigInFolderReturn([m1 EXCEPT !.stack = Pop(@)], m.ret)

\* Confinode.searchConfigInFolder, its catch clause: the error is logged and
\* the frame's result stays undefined.
searchConfigInFolderCatch(m, exception) ==
  [logError(m, "loading", exception) EXCEPT
     !.ret = Undefined, !.req = NoRequest, !.pc = "searchConfigInFolderEnd"]

\* Confinode.searchConfigUsingDescriptions, the head of its loop over
\* parameters.files (m.di is the index of the next description).
searchConfigUsingDescriptions(m) ==
  IF m.di > Len(m.parameters.files)
    THEN [m EXCEPT !.ret = Undefined, !.pc = "searchConfigInFolderParent"]
  ELSE [m EXCEPT !.tried = Append(@, <<Top(m), m.di>>),
                 !.pc = "searchFileAndLoader"]

\* Confinode.searchConfigUsingDescriptions, after searchFileAndLoader: no
\* file for this description, on to the next one.
nextDescription(m) ==
  [m EXCEPT !.di = @ + 1, !.req = NoRequest, !.pc = "searchConfigUsingDescriptions"]

\* Confinode.searchConfigUsingDescriptions, after searchFileAndLoader found
\* {fileName, loaderName, loader}: load the file.
fileAndLoader(m, fileName, loader) ==
  [m EXCEPT !.file = fileName, !.loader = loader, !.req = NoRequest,
            !.matches = Append(@, <<Top(m), m.di, fileName>>),
            !.pc = "loadConfigFile"]

\* searchFileAndLoaderMatch that takes the last of the files that match.
searchFileAndLoaderMatchLast(m, folderName, fileNames) ==
  LET description == m.parameters.files[m.di]
      baseName == basename(description.path)
      manager == loaderManager(m.parameters)
      loaderOf(fileName) == getLoaderFor(manager, fileName, slice(fileName, baseName))
      loaders == SelectSeq(fileNames,
                   LAMBDA fileName : /\ startsWith(fileName, baseName)
                                     /\ isExisting(loaderOf(fileName)))
      searchedPath == join(Top(m), description.path)
      m1 == IF Len(loaders) > 1
              THEN log(m, "warning", "multipleFiles", searchedPath)
            ELSE m
  IN IF Len(loaders) > 0
       THEN fileAndLoader(m1, join(folderName, <<loaders[Len(loaders)]>>),
                          loaderOf(loaders[Len(loaders)]))
     ELSE nextDescription(m)

\* Confinode.searchFileAndLoader for a basename description, given the
\* folder's file names: the first one, in listing order, that starts with
\* "stem." and has a loader.
searchFileAndLoaderMatch(m, folderName, fileNames) ==
  LET description == m.parameters.files[m.di]
      baseName == basename(description.path)
      manager == loaderManager(m.parameters)
      loaderOf(fileName) == getLoaderFor(manager, fileName, slice(fileName, baseName))
      loaders == SelectSeq(fileNames,
                   LAMBDA fileName : /\ startsWith(fileName, baseName)
                                     /\ isExisting(loaderOf(fileName)))
      searchedPath == join(Top(m), description.path)
      m1 == IF Len(loaders) > 1
              THEN log(m, "warning", "multipleFiles", searchedPath)
            ELSE m
  IN IF Len(loaders) > 0
       THEN fileAndLoader(m1, join(folderName, <<loaders[1]>>), loaderOf(loaders[1]))
     ELSE nextDescription(m)

\* Confinode.searchFileAndLoader, up to its yield: a basename description
\* needs the folder's content (from folderCache if it is there), an explicit
\* one asks whether its file exists.
searchFileAndLoader(m) ==
  LET description == m.parameters.files[m.di]
  IN IF isFileBasename(description)
       THEN LET searchedPath == join(Top(m), description.path)
                folderName == dirname(searchedPath)
            IN IF folderName \in DOMAIN m.folderCache
                 THEN searchFileAndLoaderMatch(m, folderName, m.folderCache[folderName])
               ELSE Yield(m, requestFolderContent(folderName), "searchFileAndLoader:content")
     ELSE Yield(m, requestFileExits(join(Top(m), description.path)),
                "searchFileAndLoader:exists")

\* searchFileAndLoaderContent that does not store the folder's content.
searchFileAndLoaderContentNoStore(m, answer) ==
  LET folderName == m.req.path
  IN IF answer.ok THEN searchFileAndLoaderMatch(m, folderName, answer.val)
     ELSE searchConfigInFolderCatch(m, answer.val)

\* Confinode.searchFileAndLoader, resumed with the folder's content.
searchFileAndLoaderContent(m, answer) ==
  LET folderName == m.req.path
      m1 == IF m.parameters.cache
              THEN [m EXCEPT !.folderCache = (folderName :> answer.val) @@ @]
            ELSE m
  IN IF answer.ok THEN searchFileAndLoaderMatch(m1, folderName, answer.val)
     ELSE searchConfigInFolderCatch(m, answer.val)

\* Confinode.searchFileAndLoader, resumed with whether the file exists.
searchFileAndLoaderExists(m, answer) ==
  IF ~answer.ok THEN searchConfigInFolderCatch(m, answer.val)
  ELSE IF answer.val
    THEN fileAndLoader(m, m.req.path, LoaderRef("", m.parameters.files[m.di].loader))
  ELSE nextDescription(m)

\* An exception that no catch clause takes leaves the generator: the call
\* raises to its caller.
Raise(m, exception) ==
  [m EXCEPT !.raised = TRUE, !.ret = Undefined, !.req = NoRequest, !.pc = "done"]

\* loadConfigCatch that rethrows any error that is not a ConfinodeError.
loadConfigCatchRethrow(m, exception) ==
  IF exception \in ConfinodeErrors THEN Return(logError(m, "loading", exception), Undefined)
  ELSE Raise(m, exception)

\* ------------------------------------------------------------------- load
\* Confinode.loadConfig, its catch clause: the error is logged and the call
\* returns undefined.
loadConfigCatch(m, exception) ==
  Return(logError(m, "loading", exception), Undefined)

\* An error thrown inside loadConfigFile reaches the catch clause of the
\* generator that called it.
Throw(m, exception) ==
  IF m.op = "search" THEN searchConfigInFolderCatch(m, exception)
  ELSE loadConfigCatch(m, exception)

\* loadConfigFileReturn whose searchConfigUsingDescriptions returns the
\* result of the first file it loads, empty or not.
loadConfigFileReturnAny(m, result) ==
  IF m.op = "search"
    THEN [m EXCEPT !.ret = result, !.req = NoRequest,
                   !.pc = "searchConfigInFolderParent"]
  ELSE Return(m, result)

\* loadConfigFile returns result to its caller: searchConfigUsingDescriptions
\* returns a found result and goes on to the next description otherwise,
\* loadConfig returns it.
loadConfigFileReturn(m, result) ==
  IF m.op = "search"
    THEN IF result.found
           THEN [log(m, "information", "loadedConfiguration", m.file) EXCEPT
                   !.ret = result, !.req = NoRequest,
                   !.pc = "searchConfigInFolderParent"]
         ELSE nextDescription(m)
  ELSE Return(m, result)

\* loadConfigFile that does not look into contentCache.
loadConfigFileUncached(m) ==
  LET absoluteFile == resolve(m.file)
      m1 == log(m, "trace", "loadingFile", absoluteFile)
      usedLoader == IF isExisting(m.loader) THEN m.loader
                    ELSE getLoaderFor(loaderManager(m.parameters),
                                      basename(absoluteFile), << >>)
      m2 == IF usedLoader.name # ""
              THEN log(m1, "trace", "usingLoader", <<<<usedLoader.name>>>>)
            ELSE m1
  IN IF ~isExisting(usedLoader) THEN Throw(m1, "noLoaderFound")
     ELSE Yield(m2, requestLoadConfigFile(absoluteFile, usedLoader.loader),
                "loadConfigFile:content")

\* Confinode.loadConfigFile(m.file, m.loader), up to its yield: the cached
\* value if there is one, else the request to load the file with the given
\* loader or the one the registry has for the file name.
loadConfigFile(m) ==
  LET absoluteFile == resolve(m.file)
      m1 == log(m, "trace", "loadingFile", absoluteFile)
      usedLoader == IF isExisting(m.loader) THEN m.loader
                    ELSE getLoaderFor(loaderManager(m.parameters),
                                      basename(absoluteFile), << >>)
      m2 == IF usedLoader.name # ""
              THEN log(m1, "trace", "usingLoader", <<<<usedLoader.name>>>>)
            ELSE m1
  IN IF absoluteFile \in DOMAIN m1.contentCache
       THEN loadConfigFileReturn(log(m1, "trace", "loadedFromCache", Root),
                                 m1.contentCache[absoluteFile])
     ELSE IF ~isExisting(usedLoader) THEN Throw(m1, "noLoaderFound")
     ELSE Yield(m2, requestLoadConfigFile(absoluteFile, usedLoader.loader),
                "loadConfigFile:content")

\* loadConfigFileResume that stores undefined under the file's path before
\* the content is parsed.
loadConfigFileResumeStoreFirst(m, answer) ==
  LET absoluteFile == m.req.path
      content == answer.val
      parsed == parse(content)
      made == ~content.empty /\ parsed.val
      result == IF made
                  THEN ConfinodeResult(m.file, m.req.loader, m.allocated + 1)
                ELSE Undefined
      m0 == IF m.parameters.cache
              THEN [m EXCEPT !.contentCache = (absoluteFile :> Undefined) @@ @]
            ELSE m
      m1 == IF content.empty THEN log(m0, "trace", "emptyConfiguration", Root) ELSE m0
      m2 == [m1 EXCEPT !.allocated = IF made THEN @ + 1 ELSE @]
      m3 == IF m.parameters.cache
              THEN [m2 EXCEPT !.contentCache = (absoluteFile :> result) @@ @]
            ELSE m2
  IN IF ~answer.ok THEN Throw(m, answer.val)
     ELSE IF ~content.empty /\ ~parsed.ok THEN Throw(m0, parsed.val)
     ELSE loadConfigFileReturn(m3, result)

\* Confinode.loadConfigFile, resumed with the file's content: undefined for
\* an empty file, else the parsed content as a new ConfinodeResult; the value
\* is cached under the file's path.
loadConfigFileResume(m, answer) ==
  LET absoluteFile == m.req.path
      content == answer.val
      parsed == parse(content)
      made == ~content.empty /\ parsed.val
      result == IF made
                  THEN ConfinodeResult(m.file, m.req.loader, m.allocated + 1)
                ELSE Undefined
      m1 == IF content.empty THEN log(m, "trace", "emptyConfiguration", Root) ELSE m
      m2 == [m1 EXCEPT !.allocated = IF made THEN @ + 1 ELSE @]
      m3 == IF m.parameters.cache
              THEN [m2 EXCEPT !.contentCache = (absoluteFile :> result) @@ @]
            ELSE m2
  IN IF ~answer.ok THEN Throw(m, answer.val)
     ELSE IF ~content.empty /\ ~parsed.ok THEN Throw(m, parsed.val)
     ELSE loadConfigFileReturn(m3, result)

\* Confinode.loadConfig, up to its yield: resolve the name, then ask whether
\* the file exists.
loadConfig(m, fs, name) ==
  LET fileName == requireResolve(fs, name)
      m1 == [m EXCEPT !.op = "load", !.arg = name, !.stack = << >>,
                      !.ret = Undefined, !.raised = FALSE, !.file = fileName,
                      !.loader = NoLoader,
                      !.requests = << >>, !.logged = << >>, !.tried = << >>,
                      !.matches = << >>]
  IN IF fileName = Root THEN loadConfigCatch(m1, "fileNotFound")
     ELSE Yield(m1, requestFileExits(fileName), "loadConfig")

\* Confinode.loadConfig, resumed with whether the file exists.
loadConfigResume(m, answer) ==
  IF ~answer.ok THEN loadConfigCatch(m, answer.val)
  ELSE IF ~answer.val THEN loadConfigCatch(m, "fileNotFound")
  ELSE [m EXCEPT !.req = NoRequest, !.pc = "loadConfigFile"]

\* ------------------------------------------------------------ the drivers
\* One step of the running generator, by the place it is at.
Step(m) ==
  CASE m.pc = "searchConfigInFolder" -> searchConfigInFolder(m)
    [] m.pc = "searchConfigUsingDescriptions" -> searchConfigUsingDescriptions(m)
    [] m.pc = "searchFileAndLoader" -> searchFileAndLoader(m)
    [] m.pc = "searchConfigInFolderParent" -> searchConfigInFolderParent(m)
    [] m.pc = "searchConfigInFolderEnd" -> searchConfigInFolderEnd(m)
    [] m.pc = "loadConfigFile" -> loadConfigFile(m)

RECURSIVE Run(_)
\* The generator runs until it yields its next request or returns.
Run(m) == IF m.pc \in Suspended \cup Finished THEN m ELSE Run(Step(m))

\* generator.next(value) / generator.throw(error): the suspended generator
\* gets the answer to its request and runs on.
Resume(m, answer) ==
  Run(CASE m.pc = "searchConfig" -> searchConfigResume(m, answer)
        [] m.pc = "searchFileAndLoader:content" -> searchFileAndLoaderContent(m, answer)
        [] m.pc = "searchFileAndLoader:exists" -> searchFileAndLoaderExists(m, answer)
        [] m.pc = "loadConfig" -> loadConfigResume(m, answer)
        [] m.pc = "loadConfigFile:content" -> loadConfigFileResume(m, answer))

RECURSIVE syncExecute(_, _)
\* syncExecute(generator): each request the generator yields is fulfilled at
\* once and its answer given back, until the generator returns.
syncExecute(m, fs) ==
  IF m.pc \in Finished THEN m ELSE syncExecute(Resume(m, Fulfil(fs, m.req)), fs)

\* syncSearch that searches from the working directory whatever searchStart.
syncSearchFromCwd(m, fs, searchStart) ==
  syncExecute(Run(searchConfig(m, Dot)), fs)

\* Confinode.syncSearch
syncSearch(m, fs, searchStart) ==
  syncExecute(Run(searchConfig(m, searchStart)), fs)

\* Confinode.syncLoad
syncLoad(m, fs, name) ==
  syncExecute(Run(loadConfig(m, fs, name)), fs)

\* What a call gives: the requests it issued and what it returned.
Outcome(m) == [requests |-> m.requests, ret |-> m.ret, raised |-> m.raised]

\* --------------------------------------------------------- the constructor
\* The value of an option in the options object: undefined, null, or a value.
JsUndefined == [given |-> "undefined", value |-> FALSE]
JsNull == [given |-> "null", value |-> FALSE]
Given(v) == [given |-> "value", value |-> v]

\* options.modulePaths: string | string[].
PathArray(paths) == [array |-> TRUE, paths |-> paths]
PathString(path) == [array |-> FALSE, paths |-> <<path>>]
\* options.files: file descriptions, or filters of the default file names
\* (a filter is modelled by its name).
Descriptions(items) == [functions |-> FALSE, items |-> items]
Filters(items) == [functions |-> TRUE, items |-> items]
\* A filter applied to file descriptions.
ApplyFilter(filter, files) ==
  IF filter = "tail" /\ files # << >> THEN Tail(files) ELSE files

\* The options argument: no options object, or an object with some entries.
NoEntries == [k \in {} |-> JsUndefined]
NoOptions == [object |-> FALSE, entries |-> NoEntries]
Options(entries) == [object |-> TRUE, entries |-> entries]

\* export const defaultConfig, as the object it is: cache, searchStop, logger
\* and customLoaders, and no other key.
defaultConfigEntries ==
  [ cache |-> TRUE, searchStop |-> Home, logger |-> "defaultLogger",
    customLoaders |-> NoCustomLoaders ]

\* defaultFiles(name): the default file descriptions for the name.
defaultFiles(name) ==
  << Basename(<< <<name>> >>), Explicit(<<PkgJson>>, "json") >>

\* filesAreFilters(files)
filesAreFilters(files) == Len(files.items) = 0 \/ files.functions

\* options?.key is undefined, null or absent (every value given here for
\* files and mode is truthy).
Falsy(options, key) ==
  \/ ~options.object
  \/ key \notin DOMAIN options.entries
  \/ options.entries[key].given # "value"

\* Object.entries(options ?? {}).reduce(..., {...defaultConfig}): the default
\* options, overridden by the entries that are neither undefined nor null.
MergedOptions(options) ==
  LET entries == IF options.object THEN options.entries ELSE NoEntries
      given == {k \in DOMAIN entries : entries[k].given = "value"}
  IN [k \in DOMAIN defaultConfigEntries \cup given |->
        IF k \in given THEN entries[k].value ELSE defaultConfigEntries[k]]

RECURSIVE ReduceFilters(_, _)
\* options.files.reduce((previous, filter) => filter(previous), files)
ReduceFilters(filters, files) ==
  IF filters = << >> THEN files
  ELSE ReduceFilters(Tail(filters), ApplyFilter(Head(filters), files))

\* What is kept of one construction: the options given, whether the
\* constructor threw, and this.parameters of the new instance if it did not.
NotConstructed ==
  [made |-> FALSE, options |-> NoOptions, raised |-> FALSE, parameters |-> NoEntries]
ConstructorThrows(options) ==
  [made |-> TRUE, options |-> options, raised |-> TRUE, parameters |-> NoEntries]
ConstructorReturns(options, parameters) ==
  [made |-> TRUE, options |-> options, raised |-> FALSE, parameters |-> parameters]

\* Prepare options, modulePaths: this.parameters.modulePaths.map(...) reads
\* the property map of the merged value, which is a TypeError when the value
\* is undefined, and calls it, which is a TypeError when the value is a
\* string; process.cwd() is then put first.
PreparedModulePaths(merged) ==
  IF "modulePaths" \notin DOMAIN merged THEN Thrown("TypeError")
  ELSE IF ~merged.modulePaths.array THEN Thrown("TypeError")
  ELSE Value(<<Cwd>> \o [i \in DOMAIN merged.modulePaths.paths |->
                           resolve(merged.modulePaths.paths[i])])

\* Prepare options, files.
PreparedFiles(name, options, merged) ==
  LET files == IF Falsy(options, "files") \/ filesAreFilters(options.entries.files.value)
                 THEN defaultFiles(name)
               ELSE merged.files.items
  IN IF ~Falsy(options, "files") /\ filesAreFilters(options.entries.files.value)
       THEN ReduceFilters(options.entries.files.value.items, files)
     ELSE files

\* Prepare options, mode.
PreparedMode(options, merged) ==
  IF Falsy(options, "mode") THEN "async" ELSE merged.mode

\* public constructor(name, description, options), up to the polymorphic
\* methods.
constructor(name, options) ==
  LET merged == MergedOptions(options)
      modulePaths == PreparedModulePaths(merged)
  IN IF ~modulePaths.ok THEN ConstructorThrows(options)
     ELSE ConstructorReturns(options,
            [k \in DOMAIN merged \cup {"modulePaths", "files", "mode"} |->
               CASE k = "modulePaths" -> modulePaths.val
                 [] k = "files" -> PreparedFiles(name, options, merged)
                 [] k = "mode" -> PreparedMode(options, merged)
                 [] OTHER -> merged[k]])

\* The name the instances are constructed with.
InstanceName == "rc"

\* The values given for each option, the key being absent for choice 0.
OptionValues ==
  [ cache |-> <<JsNull, Given(TRUE), Given(FALSE)>>,
    searchStop |-> <<JsUndefined, Given(Root)>>,
    modulePaths |-> << JsUndefined, Given(PathArray(<< >>)),
                       Given(PathArray(<< Dot \o Side >>)), Given(PathString(Side)) >>,
    files |-> << Given(Descriptions(Files)), Given(Descriptions(<< >>)),
                 Given(Filters(<<"tail">>)) >>,
    mode |-> <<Given("async"), Given("sync")>> ]
OptionChoices ==
  {c \in [DOMAIN OptionValues -> 0..4] : \A k \in DOMAIN c : c[k] <= Len(OptionValues[k])}
\* The options object of a choice.
OptionsOf(c) ==
  Options([k \in {x \in DOMAIN c : c[x] > 0} |-> OptionValues[k][c[k]]])

\* ------------------------------------------------------------------ state
VARIABLES
  parameters,    \* this.parameters
  fs,            \* the filesystem behind the Directory Gateway
  folderCache,   \* this.folderCache
  contentCache,  \* this.contentCache
  allocated,     \* how many ConfinodeResult objects were made
  gen,           \* the generator of the call in flight, or of the last call
  requests,      \* the requests the call has issued, in order
  logged,        \* the messages the call has given to the logger, in order
  tried,         \* the <<folder, description index>> pairs the call has tried
  matches,       \* the <<folder, description index, file>> the call has matched
  driver,        \* the driver of the latest call: "async" or "sync"
  answered,      \* how many requests of the latest call were fulfilled
  twin,          \* what the synchronous driver gives for the latest call
  calls,         \* how many calls were started
  clears,        \* how many times clearCache was called
  cleared,       \* was clearCache called during / after the latest call, and
                 \* how far was the call at the latest clearCache during it?
  startEmpty,    \* were both caches empty when the latest call started?
  past,          \* what the calls before the latest one did
  instances,     \* the instances constructed beside this one, in order
  prototype,     \* the properties set on the methods of Confinode.prototype
  last,          \* the latest call made on one of these instances
  constructed    \* the latest new Confinode(name, description, options)

vars ==
  << parameters, fs, folderCache, contentCache, allocated, gen, requests, logged,
     tried, matches, driver, answered, twin, calls, clears, cleared, startEmpty, past,
     instances, prototype, last, constructed >>

\* What belongs to the instances constructed beside this one.
others == <<instances, prototype, last, constructed>>

\* Number of clearCache calls made on the instance in one behaviour.
MaxClears == 1

GenFields ==
  {"pc", "op", "arg", "stack", "folder", "di", "file", "loader", "req", "ret", "raised"}

\* The engine's state as one record, and back.
Machine ==
  [f \in GenFields |-> gen[f]] @@
  [ parameters |-> parameters, folderCache |-> folderCache,
    contentCache |-> contentCache, allocated |-> allocated,
    requests |-> requests, logged |-> logged, tried |-> tried,
    matches |-> matches ]

Becomes(m) ==
  /\ folderCache' = m.folderCache
  /\ contentCache' = m.contentCache
  /\ allocated' = m.allocated
  /\ gen' = [f \in GenFields |-> m[f]]
  /\ requests' = m.requests
  /\ logged' = m.logged
  /\ tried' = m.tried
  /\ matches' = m.matches

\* The paths search is called with: "." (the working directory), a file of
\* the working directory, the home directory, a directory outside of it.
SearchStarts == {Dot, join(Deep, <<NotesTxt>>), Home, Side}
\* The names load is called with.
LoadNames == {join(Deep, <<RcYaml>>), join(Deep, <<NotesTxt>>)}

\* The instances and filesystems of the model.
Scenarios ==
  {[parameters |-> Parameters(cache, Home, NoCustomLoaders), fs |-> MakeFs(low, good)] :
     cache \in BOOLEAN, low \in LowKinds, good \in {-1, MaxDepth - 1}}
  \cup
  {[parameters |-> Parameters(cache, stop, NoCustomLoaders), fs |-> MakeFs(low, 0)] :
     cache \in BOOLEAN, low \in {"none", "ok", "empty"}, stop \in {Home, Root}}
  \cup
  {[parameters |-> Parameters(cache, Home, SomeCustomLoaders), fs |-> MakeFs(low, -1)] :
     cache \in BOOLEAN, low \in {"ok", "cfg"}}
  \cup
  {[parameters |-> [Parameters(cache, Home, NoCustomLoaders) EXCEPT !.files = StemFiles],
    fs |-> MakeFs(low, -1)] :
     cache \in BOOLEAN, low \in {"ok", "pkg", "unlistable"}}

Init ==
  /\ \E scenario \in Scenarios :
       /\ parameters = scenario.parameters
       /\ fs = scenario.fs
  /\ folderCache = NewInstance(parameters).folderCache
  /\ contentCache = NewInstance(parameters).contentCache
  /\ allocated = 0
  /\ gen = [f \in GenFields |-> NewInstance(parameters)[f]]
  /\ requests = << >>
  /\ logged = << >>
  /\ tried = << >>
  /\ matches = << >>
  /\ driver = "none"
  /\ answered = 0
  /\ twin = Outcome(NewInstance(parameters))
  /\ calls = 0
  /\ clears = 0
  /\ cleared = [inFlight |-> FALSE, after |-> FALSE, delivered |-> 0, logged |-> 0]
  /\ startEmpty = TRUE
  /\ past = << >>
  /\ instances = << >>
  /\ constructed = NotConstructed
  /\ prototype = [asyncSearch |-> 0, syncSearch |-> 0, asyncLoad |-> 0, syncLoad |-> 0]
  /\ last = [on |-> 0, alternate |-> FALSE, op |-> "none", arg |-> Root, ret |-> Undefined]

\* What is kept of a call once the next one starts.
Summary ==
  [ op |-> gen.op, arg |-> gen.arg, ret |-> gen.ret, raised |-> gen.raised,
    requests |-> requests, startEmpty |-> startEmpty,
    cleared |-> [inFlight |-> cleared.inFlight, after |-> cleared.after] ]

\* A call starts on the instance, the previous one being over.
Starts ==
  /\ gen.pc \in Finished
  /\ calls < MaxCalls
  /\ calls' = calls + 1
  /\ past' = IF gen.pc = "done" THEN Append(past, Summary) ELSE past
  /\ cleared' = [inFlight |-> FALSE, after |-> FALSE, delivered |-> 0, logged |-> 0]
  /\ startEmpty' = (DOMAIN folderCache = {} /\ DOMAIN contentCache = {})
  /\ UNCHANGED <<parameters, fs, clears, others>>

\* confinode.search(searchStart): the generator runs to its first yield.
Search(searchStart) ==
  /\ Starts
  /\ Becomes(Run(searchConfig(Machine, searchStart)))
  /\ driver' = "async"
  /\ answered' = 0
  /\ twin' = Outcome(syncSearch(Machine, fs, searchStart))

\* confinode.load(name): the generator runs to its first yield, or returns.
Load(name) ==
  /\ Starts
  /\ Becomes(Run(loadConfig(Machine, fs, name)))
  /\ driver' = "async"
  /\ answered' = 0
  /\ twin' = Outcome(syncLoad(Machine, fs, name))

\* confinode.search.sync(searchStart): the call runs to its end.
SyncSearch(searchStart) ==
  /\ Starts
  /\ Becomes(syncSearch(Machine, fs, searchStart))
  /\ driver' = "sync"
  /\ answered' = Len(syncSearch(Machine, fs, searchStart).requests)
  /\ twin' = Outcome(syncSearch(Machine, fs, searchStart))

\* confinode.load.sync(name): the call runs to its end.
SyncLoad(name) ==
  /\ Starts
  /\ Becomes(syncLoad(Machine, fs, name))
  /\ driver' = "sync"
  /\ answered' = Len(syncLoad(Machine, fs, name).requests)
  /\ twin' = Outcome(syncLoad(Machine, fs, name))

\* The driver fulfils the pending request through the gateway and resumes
\* the generator with the value, or throws the error into it.
Fulfilled ==
  /\ gen.pc \in Suspended
  /\ Becomes(Resume(Machine, Fulfil(fs, gen.req)))
  /\ answered' = answered + 1
  /\ UNCHANGED <<parameters, fs, driver, twin, calls, clears, cleared, startEmpty, past,
                  others>>

\* confinode.clearCache(), between two calls or while a call is suspended.
ClearCache ==
  /\ clears < MaxClears
  /\ clears' = clears + 1
  /\ Becomes(clearCache(Machine))
  /\ cleared' = IF gen.pc \in Suspended
                  THEN [cleared EXCEPT !.inFlight = TRUE, !.delivered = answered,
                                       !.logged = Len(logged)]
                ELSE [cleared EXCEPT !.after = TRUE]
  /\ UNCHANGED <<parameters, fs, driver, answered, twin, calls, startEmpty, past,
                  others>>

Next ==
  \/ \E searchStart \in SearchStarts : Search(searchStart)
  \/ \E name \in LoadNames : Load(name)
  \/ \E searchStart \in SearchStarts : SyncSearch(searchStart)
  \/ \E name \in LoadNames : SyncLoad(name)
  \/ Fulfilled
  \/ ClearCache

Spec == Init /\ [][Next]_vars

\* ------------------------------------------------------ several instances
\* Number of instances constructed in one behaviour.
MaxInstances == 2

\* The modes and the options instances are constructed with.
Modes == {"async", "sync"}
InstanceOptions == {Parameters(TRUE, stop, NoCustomLoaders) : stop \in {Home, Root}}
\* The searchStart and the name the instances are called with.
InstanceArgs == [search |-> {Dot, Home}, load |-> {join(Deep, <<RcYaml>>)}]

\* What belongs to the one instance of Spec, which is left alone here.
alone ==
  << parameters, folderCache, contentCache, allocated, gen, requests, logged,
     tried, matches, driver, answered, twin, clears, cleared, startEmpty, past >>

\* new Confinode(name, description, options), its polymorphic methods: search
\* is the method asyncSearch (or syncSearch) of the prototype, and the
\* property sync (or async) of that method is set to a function that calls
\* the other method on the instance under construction; the same for load.
Construct(mode, options) ==
  LET this == Len(instances) + 1
  IN /\ this <= MaxInstances
     /\ instances' = Append(instances, [mode |-> mode, m |-> NewInstance(options)])
     /\ prototype' =
          IF mode = "async"
            THEN [prototype EXCEPT !.asyncSearch = this, !.asyncLoad = this]
          ELSE [prototype EXCEPT !.syncSearch = this, !.syncLoad = this]
     /\ UNCHANGED <<fs, calls, last, constructed, alone>>

\* The generator of a call, run to its end with no other call in between.
RunCall(m, op, arg) ==
  IF op = "search" THEN syncSearch(m, fs, arg) ELSE syncLoad(m, fs, arg)

\* A call of op on instance this, which runs on instance i.
Called(i, this, alternate, op, arg) ==
  /\ calls < MaxCalls
  /\ calls' = calls + 1
  /\ instances' = [instances EXCEPT ![this].m = RunCall(@, op, arg)]
  /\ last' = [on |-> i, alternate |-> alternate, op |-> op, arg |-> arg,
              ret |-> instances'[this].m.ret]
  /\ UNCHANGED <<fs, prototype, constructed, alone>>

\* instances[i].search(searchStart) or .load(name): the method of the
\* prototype is called on the instance.
Primary(i, op, arg) == Called(i, i, FALSE, op, arg)

\* instances[i].search.sync(searchStart), .search.async(searchStart),
\* .load.sync(name) or .load.async(name): the function found in the property
\* of the prototype's method is called.
Alternate(i, op, arg) ==
  LET method == IF instances[i].mode = "async"
                  THEN (IF op = "search" THEN "asyncSearch" ELSE "asyncLoad")
                ELSE (IF op = "search" THEN "syncSearch" ELSE "syncLoad")
  IN Called(i, prototype[method], TRUE, op, arg)

InitInstances ==
  /\ parameters = defaultConfig
  /\ fs = MakeFs("ok", 0)
  /\ folderCache = NewInstance(parameters).folderCache
  /\ contentCache = NewInstance(parameters).contentCache
  /\ allocated = 0
  /\ gen = [f \in GenFields |-> NewInstance(parameters)[f]]
  /\ requests = << >>
  /\ logged = << >>
  /\ tried = << >>
  /\ matches = << >>
  /\ driver = "none"
  /\ answered = 0
  /\ twin = Outcome(NewInstance(parameters))
  /\ calls = 0
  /\ clears = 0
  /\ cleared = [inFlight |-> FALSE, after |-> FALSE, delivered |-> 0, logged |-> 0]
  /\ startEmpty = TRUE
  /\ past = << >>
  /\ instances = << >>
  /\ constructed = NotConstructed
  /\ prototype = [asyncSearch |-> 0, syncSearch |-> 0, asyncLoad |-> 0, syncLoad |-> 0]
  /\ last = [on |-> 0, alternate |-> FALSE, op |-> "none", arg |-> Root, ret |-> Undefined]

NextInstances ==
  \/ \E mode \in Modes, options \in InstanceOptions : Construct(mode, options)
  \/ \E i \in DOMAIN instances, op \in DOMAIN InstanceArgs :
       \E arg \in InstanceArgs[op] : Primary(i, op, arg)
  \/ \E i \in DOMAIN instances, op \in DOMAIN InstanceArgs :
       \E arg \in InstanceArgs[op] : Alternate(i, op, arg)

SpecInstances == InitInstances /\ [][NextInstances]_vars

\* ------------------------------------------------------- new Confinode(...)
\* new Confinode(name, description, options): the constructor runs on the
\* options given and returns the instance, or throws.
NewConfinode(options) ==
  /\ constructed' = constructor(InstanceName, options)
  /\ UNCHANGED <<fs, calls, instances, prototype, last, alone>>

InitConstructor ==
  /\ InitInstances

NextConstructor ==
  \/ NewConfinode(NoOptions)
  \/ \E c \in OptionChoices : NewConfinode(OptionsOf(c))

SpecConstructor == InitConstructor /\ [][NextConstructor]_vars

\* ------------------------------------------------------ reading the logs
SearchDone == gen.pc = "done" /\ gen.op = "search"
LoadDone == gen.pc = "done" /\ gen.op = "load"

\* The absolute folders the call has entered, as the messages of the logger
\* tell: the indexes of its searchInFolder messages.
Entered == {i \in DOMAIN logged : logged[i].id = "searchInFolder"}
\* The folder the generator was in when it logged message i.
FolderAt(i) ==
  logged[CHOOSE j \in Entered : j < i /\ \A k \in Entered : k < i => k <= j].param
\* The folder the cascade of the call starts in.
HasSearchRoot == Entered # {}
SearchRoot == logged[CHOOSE j \in Entered : \A k \in Entered : j <= k].param

\* The directory in which description i looks for its file, from folder F.
DirOf(F, i) == dirname(join(F, parameters.files[i].path))

\* The gateway lists directory D.
Listable(D) == D \in DOMAIN fs.list /\ <<"folderContent", D>> \notin fs.faults

\* The directory a request is about.
TargetDir(request) ==
  IF request.kind = "folderContent" THEN resolve(request.path)
  ELSE dirname(resolve(request.path))

\* The requests of the call that examine a directory.
Examining ==
  {i \in DOMAIN requests :
     requests[i].kind \in {"folderContent", "fileExists", "loadConfigFile"}}

\* -------------------------------------------------------------------- C1
\* C1 (as claimed): when a search has logged a loading failure while it was
\* in directory D, and D is neither the stop directory nor the root, the
\* search has gone on to D's parent directory.
C1_ErrorRecovery ==
  SearchDone =>
    \A i \in DOMAIN logged :
      (logged[i].level = "error" /\ logged[i].id = "loadingError") =>
        LET D == FolderAt(i)
        IN (D # parameters.searchStop /\ D # Root) =>
             \E j \in Entered : j > i /\ logged[j].param = dirname(D)

\* -------------------------------------------------------------------- C2
\* C2 (as claimed): no listing, file-exists or load request of a search is
\* about a strict ancestor of the stop directory.
C2_StopBound ==
  gen.op = "search" =>
    \A i \in Examining :
      ~StrictAncestor(TargetDir(requests[i]), parameters.searchStop)

\* C2 (amended): when the folder the search starts in is the stop directory
\* or below it, no listing, file-exists or load request of the search is
\* about a strict ancestor of the stop directory, and no such folder is
\* entered.
C2_StopBoundUnderStop ==
  (gen.op = "search" /\ HasSearchRoot /\ IsUnder(SearchRoot, parameters.searchStop)) =>
    /\ \A i \in Examining :
         ~StrictAncestor(TargetDir(requests[i]), parameters.searchStop)
    /\ \A i \in Entered : ~StrictAncestor(logged[i].param, parameters.searchStop)

\* C2 witness: a search from below the stop directory has examined the stop
\* directory, found nothing, and is over.
C2_Witness ==
  /\ SearchDone /\ ~gen.ret.found
  /\ HasSearchRoot /\ StrictAncestor(parameters.searchStop, SearchRoot)
  /\ \E i \in Examining : TargetDir(requests[i]) = parameters.searchStop
  /\ parameters.searchStop # Root

\* -------------------------------------------------------------------- C3
\* The errors the gateway threw into the call, and the errors raised inside
\* it, all end in the log.
ErrorsLogged == {i \in DOMAIN logged : logged[i].level = "error"}

\* C3: no call raises to its caller: a finished call has returned a result or
\* undefined, whatever the gateway threw; a load whose name does not resolve,
\* or whose file does not exist, has returned undefined.
C3_NeverRaises ==
  /\ ~gen.raised
  /\ gen.pc = "done" =>
       \/ gen.ret = Undefined
       \/ gen.ret.found /\ gen.ret.fileName \in DOMAIN fs.content
  /\ (LoadDone /\ resolve(gen.arg) \notin DOMAIN fs.content) => gen.ret = Undefined
  /\ (LoadDone /\ \E i \in DOMAIN requests :
        /\ requests[i].kind = "fileExists"
        /\ Fulfil(fs, requests[i]) # Value(TRUE)) => gen.ret = Undefined

\* C3 witness: a load call is over after the gateway threw an error into it.
C3_Witness ==
  /\ LoadDone /\ ~gen.raised /\ gen.ret = Undefined
  /\ \E i \in DOMAIN requests : ~Fulfil(fs, requests[i]).ok
  /\ \E i \in ErrorsLogged : logged[i].id = "loadingError"

\* ------------------------------------------------------- reading the past
\* The call before the latest one.
HasPrevious == past # << >>
Previous == past[Len(past)]
\* The requests of a call that read the filesystem's content.
Reads(reqs) ==
  {i \in DOMAIN reqs : reqs[i].kind \in {"folderContent", "loadConfigFile"}}
CachesEmpty == DOMAIN folderCache = {} /\ DOMAIN contentCache = {}

\* -------------------------------------------------------------------- C4
\* C4: with the cache on, a search that follows a search from the same start
\* path, with no clearCache since that one returned, returns the very same
\* result (the same object, or undefined again) and issues neither a listing
\* nor a load request.
C4_CacheHit ==
  ( /\ SearchDone /\ parameters.cache /\ HasPrevious
    /\ Previous.op = "search" /\ Previous.arg = gen.arg
    /\ ~Previous.cleared.after /\ ~cleared.inFlight ) =>
    /\ gen.ret = Previous.ret
    /\ Reads(requests) = {}

\* C4 witness: the second of two such searches has returned the result
\* object the first one made.
C4_Witness ==
  /\ SearchDone /\ parameters.cache /\ HasPrevious
  /\ Previous.op = "search" /\ Previous.arg = gen.arg
  /\ ~Previous.cleared.after /\ ~cleared.inFlight
  /\ Reads(Previous.requests) # {}
  /\ gen.ret.found /\ gen.ret.id = Previous.ret.id

\* -------------------------------------------------------------------- C5
\* C5: once clearCache has returned with no call in flight, both caches are
\* empty, and the call that follows issues the requests that the same call
\* issued as the first call on the new instance.
C5_ClearForcesReread ==
  /\ (gen.pc \in Finished /\ cleared.after) => CachesEmpty
  /\ ( /\ gen.pc = "done" /\ HasPrevious
       /\ Previous.cleared.after /\ ~cleared.inFlight
       /\ past[1].op = gen.op /\ past[1].arg = gen.arg
       /\ ~past[1].cleared.inFlight ) =>
       /\ startEmpty
       /\ requests = past[1].requests

\* C5 witness: a search that read the filesystem, then clearCache, then the
\* same search, which has read it again.
C5_Witness ==
  /\ SearchDone /\ parameters.cache /\ HasPrevious
  /\ Previous.cleared.after /\ ~cleared.inFlight
  /\ past[1].op = gen.op /\ past[1].arg = gen.arg /\ ~past[1].cleared.inFlight
  /\ Reads(requests) # {} /\ gen.ret.found

\* -------------------------------------------------------------------- C6
\* C6: with the cache off both caches stay empty, and every call issues the
\* requests that the same call issued before.
C6_CacheDisabled ==
  ~parameters.cache =>
    /\ CachesEmpty
    /\ gen.pc = "done" =>
         \A k \in DOMAIN past :
           (past[k].op = gen.op /\ past[k].arg = gen.arg) =>
             requests = past[k].requests

\* C6 witness: with the cache off, a search that loaded a file has been made
\* a second time.
C6_Witness ==
  /\ ~parameters.cache /\ SearchDone /\ HasPrevious
  /\ Previous.op = gen.op /\ Previous.arg = gen.arg
  /\ gen.ret.found /\ Previous.ret.found /\ gen.ret.id # Previous.ret.id
  /\ Reads(requests) # {}

\* -------------------------------------------------------------------- C7
\* Description i of parameters.files, tried in folder F, names file f: by
\* its stem and a suffix that has a loader, or by its exact name.
MatchedIn(F, f, i) ==
  LET description == parameters.files[i]
      stem == basename(description.path)
  IN /\ dirname(f) = DirOf(F, i)
     /\ IF isFileBasename(description)
          THEN /\ startsWith(basename(f), stem)
               /\ isExisting(getLoaderFor(loaderManager(parameters), basename(f),
                                          slice(basename(f), stem)))
        ELSE basename(f) = stem
\* Description i names file f, tried in some folder.
MatchedBy(f, i) == \E F \in DOMAIN fs.list : MatchedIn(F, f, i)
\* The files of the tree that some description names.
ConfigFiles ==
  {f \in DOMAIN fs.content : \E i \in DOMAIN parameters.files : MatchedBy(f, i)}
\* The tree holds exactly one matching configuration file, f, which every
\* loader reads as a non-empty valid configuration, and the gateway fulfils
\* every request.
OnlyConfig(f) ==
  ConfigFiles = {f} /\ fs.content[f] = "ok" /\ fs.faults = {}
\* The stop directory does not lie between the search root and D, below D.
StopNotBelow(D) ==
  ~( /\ IsUnder(SearchRoot, parameters.searchStop)
     /\ StrictAncestor(D, parameters.searchStop) )

Good(request) ==
  LET answer == Fulfil(fs, request)
  IN /\ answer.ok
     /\ ~answer.val.empty
     /\ parse(answer.val) = Value(TRUE)
LastLogged == logged[Len(logged)]

\* C8: a search tries the descriptions in their order, folder by folder
\* upwards; the result it produces comes from the last pair it tried, no
\* load before that one gave a configuration, and once it holds a result it
\* issues no request and enters no folder.
C8_PriorityEarlyStop ==
  gen.op = "search" =>
    /\ \A k \in 1..(Len(tried) - 1) :
         LET a == tried[k]
             b == tried[k + 1]
         IN \/ b[1] = a[1] /\ b[2] = a[2] + 1
            \/ /\ a[2] = Len(parameters.files) /\ b[2] = 1
               /\ b[1] = dirname(a[1]) /\ b[1] # a[1]
    /\ gen.pc \in Suspended => ~gen.ret.found
    /\ (gen.pc = "done" /\ gen.ret.found) =>
         /\ LastLogged.id \in {"loadedConfiguration", "loadedFromCache"}
         /\ \A i \in DOMAIN requests :
              (requests[i].kind = "loadConfigFile" /\ Good(requests[i])) =>
                i = Len(requests) /\ requests[i].path = gen.ret.fileName
         /\ LastLogged.id = "loadedConfiguration" =>
              /\ LastLogged.param = gen.ret.fileName
              /\ MatchedIn(tried[Len(tried)][1], gen.ret.fileName,
                           tried[Len(tried)][2])

\* C8 witness: a search has returned the file of its third description,
\* after it loaded the file of an earlier one, which gave nothing.
C8_Witness ==
  /\ SearchDone /\ gen.ret.found
  /\ LastLogged.id = "loadedConfiguration"
  /\ tried[Len(tried)][2] = Len(parameters.files)
  /\ \E i \in DOMAIN requests :
       requests[i].kind = "loadConfigFile" /\ ~Good(requests[i])

\* -------------------------------------------------------------------- C9
\* The pending load request of a search is answered "empty".
EmptyAnswer ==
  /\ gen.op = "search" /\ gen.pc = "loadConfigFile:content"
  /\ Fulfil(fs, gen.req).ok /\ Fulfil(fs, gen.req).val.empty

\* C9: when the load of a matched file is answered empty, no result is made
\* of it and the search goes on: to the next description of the folder, or,
\* after the last one, to the parent folder (to its end with undefined when
\* the folder is the stop folder or the root).
C9_EmptyNotMatch ==
  [][ (EmptyAnswer /\ gen' # gen) =>
        LET F == tried[Len(tried)][1]
            i == tried[Len(tried)][2]
        IN /\ allocated' = allocated
           /\ IF i < Len(parameters.files)
                THEN /\ Len(tried') > Len(tried)
                     /\ tried'[Len(tried) + 1] = <<F, i + 1>>
              ELSE IF F # parameters.searchStop /\ F # Root
                THEN \E j \in DOMAIN logged' :
                       /\ j > Len(logged)
                       /\ logged'[j].id = "searchInFolder"
                       /\ logged'[j].param = dirname(F)
              ELSE gen'.pc = "done" /\ gen'.ret = Undefined ]_vars

\* C9 witness: a search has met an empty file in each description of a
\* folder and has returned the file of a folder above.
C9_Witness ==
  /\ SearchDone /\ gen.ret.found
  /\ \E i \in DOMAIN logged :
       /\ logged[i].id = "emptyConfiguration"
       /\ StrictAncestor(dirname(gen.ret.fileName), FolderAt(i))
  /\ \E k \in DOMAIN tried :
       /\ tried[k][2] = Len(parameters.files)
       /\ \E i \in DOMAIN requests :
            /\ requests[i].kind = "loadConfigFile"
            /\ requests[i].path = join(tried[k][1], parameters.files[tried[k][2]].path)
            /\ Fulfil(fs, requests[i]).val.empty

\* ------------------------------------------------------------------- C10
\* The suffix a basename description leaves of a file name.
SuffixOf(fileName, i) == slice(fileName, basename(parameters.files[i].path))
\* Name n is the first entry, of the directory description i looks into from
\* folder F, that starts with the stem of the description, and a custom
\* loader is registered for its suffix.
FirstCustom(F, i, n) ==
  LET names == fs.list[DirOf(F, i)]
      stem == basename(parameters.files[i].path)
  IN \E k \in DOMAIN names :
       /\ names[k] = n
       /\ startsWith(n, stem)
       /\ SuffixOf(n, i) \in DOMAIN parameters.customLoaders
       /\ \A h \in 1..(k - 1) : ~startsWith(names[h], stem)

\* C10 (as claimed): a load request that a search issues for the file of a
\* basename description carries the custom loader registered for the file's
\* suffix, if there is one; and a file whose suffix has a custom loader is
\* loaded for the basename description of its stem.
C10_CustomLoader ==
  /\ ( /\ gen.op = "search" /\ gen.pc = "loadConfigFile:content"
       /\ isFileBasename(parameters.files[gen.di])
       /\ SuffixOf(basename(gen.req.path), gen.di) \in DOMAIN parameters.customLoaders ) =>
       gen.req.loader =
         parameters.customLoaders[SuffixOf(basename(gen.req.path), gen.di)]
  /\ SearchDone =>
       \A k \in DOMAIN tried :
         LET F == tried[k][1]
             i == tried[k][2]
         IN ( /\ isFileBasename(parameters.files[i])
              /\ Listable(DirOf(F, i)) ) =>
              \A n \in Range(fs.list[DirOf(F, i)]) :
                FirstCustom(F, i, n) =>
                  \E j \in DOMAIN logged :
                    /\ logged[j].id = "loadingFile"
                    /\ logged[j].param = join(DirOf(F, i), <<n>>)

\* ------------------------------------------------------------------- C11
\* The candidates of basename description i in folder F: the listed entries,
\* in listing order, that start with "stem." and whose suffix has a loader.
Candidates(F, i) ==
  LET stem == basename(parameters.files[i].path)
  IN SelectSeq(fs.list[DirOf(F, i)],
       LAMBDA n : /\ startsWith(n, stem)
                  /\ isExisting(getLoaderFor(loaderManager(parameters), n,
                                             slice(n, stem))))
\* The search has got the listing for the k-th pair it tried and has matched
\* it.
Decided(k) == k < Len(tried) \/ gen.pc # "searchFileAndLoader:content"
\* The files matched for description i in folder F.
MatchesOf(F, i) == {x[3] : x \in {y \in Range(matches) : y[1] = F /\ y[2] = i}}
\* A multipleFiles warning was logged for description i in folder F.
Warned(F, i) ==
  \E j \in DOMAIN logged :
    /\ logged[j].level = "warning" /\ logged[j].id = "multipleFiles"
    /\ logged[j].param = join(F, parameters.files[i].path)

\* C11: for a basename description matched in a listed directory: with no
\* candidate no file is matched, with candidates the first one in listing
\* order is the file matched, and the multipleFiles warning is logged exactly
\* when there is more than one candidate.
C11_BasenameTieBreak ==
  gen.op = "search" =>
    \A k \in DOMAIN tried :
      LET F == tried[k][1]
          i == tried[k][2]
      IN ( /\ isFileBasename(parameters.files[i])
           /\ Listable(DirOf(F, i))
           /\ Decided(k) ) =>
           LET candidates == Candidates(F, i)
           IN /\ Len(candidates) = 0 => MatchesOf(F, i) = {}
              /\ Len(candidates) > 0 =>
                   MatchesOf(F, i) = {join(DirOf(F, i), <<candidates[1]>>)}
              /\ Warned(F, i) <=> Len(candidates) > 1

\* C11 witness: a search has met two candidates of a basename description,
\* has logged the warning and has returned the first one listed.
C11_Witness ==
  /\ SearchDone /\ gen.ret.found
  /\ \E k \in DOMAIN tried :
       LET F == tried[k][1]
           i == tried[k][2]
       IN /\ isFileBasename(parameters.files[i])
          /\ Listable(DirOf(F, i))
          /\ Len(Candidates(F, i)) > 1
          /\ Warned(F, i)
          /\ gen.ret.fileName = join(DirOf(F, i), <<Candidates(F, i)[1]>>)
          /\ gen.ret.fileName # join(DirOf(F, i), <<Candidates(F, i)[2]>>)


\* ------------------------------------------------------------------- C12
\* s is a prefix of t.
IsPrefix(s, t) == Len(s) <= Len(t) /\ s = SubSeq(t, 1, Len(s))

Calls == IF calls = 0 THEN << >> ELSE Append(past, Summary)
\* The latest call is over.
Over(c) == c < Len(Calls) \/ gen.pc = "done"
\* The load-and-parse requests of call c.
LoadRequests(c) ==
  {i \in DOMAIN Calls[c].requests : Calls[c].requests[i].kind = "loadConfigFile"}
\* The loading that a load-and-parse request asks for completes: the gateway
\* answers with a content or with empty, and a content is validated.
Completes(request) ==
  LET answer == Fulfil(fs, request)
  IN answer.ok /\ (answer.val.empty \/ parse(answer.val).ok)
\* clearCache was not called from the start of call c1 to the end of call c2.
NoClearBetween(c1, c2) ==
  \A c \in c1..c2 :
    /\ ~Calls[c].cleared.inFlight
    /\ c < c2 => ~Calls[c].cleared.after
\* Request i1 of call c1 is a load-and-parse of path p that completes, it
\* comes before request i2 of call c2, and no clearCache comes in between.
LoadedBefore(p, c1, i1, c2, i2) ==
  /\ c1 < c2 \/ (c1 = c2 /\ i1 < i2)
  /\ i1 \in LoadRequests(c1)
  /\ Calls[c1].requests[i1].path = p
  /\ Completes(Calls[c1].requests[i1])
  /\ NoClearBetween(c1, c2)

\* Call c is a load by name of path p whose file was found to exist, so that
\* it has gone on to load the file.
LoadsFile(c, p) ==
  /\ Calls[c].op = "load" /\ requireResolve(fs, Calls[c].arg) = p
  /\ \E i \in DOMAIN Calls[c].requests :
       /\ Calls[c].requests[i].kind = "fileExists"
       /\ Fulfil(fs, Calls[c].requests[i]) = Value(TRUE)

\* C13: with the cache on, once the loading of a file path has completed, no
\* call issues a load-and-parse request for that path before the next
\* clearCache; a load by name that goes on to load that path returns what
\* that loading gave (a Result exactly when the content was a valid non-empty
\* configuration), and every call that returns a Result of that path returns
\* the same object.
C13_LoadIdempotent ==
  parameters.cache =>
    \A c2 \in DOMAIN Calls : \A c1 \in 1..c2 : \A i1 \in LoadRequests(c1) :
      LET p == Calls[c1].requests[i1].path
      IN /\ \A i2 \in LoadRequests(c2) :
              LoadedBefore(p, c1, i1, c2, i2) => Calls[c2].requests[i2].path # p
         /\ ( /\ c1 < c2 /\ Over(c2)
              /\ LoadedBefore(p, c1, i1, c2, Len(Calls[c2].requests) + 1) ) =>
              /\ LoadsFile(c2, p) =>
                   /\ Calls[c2].ret.found <=> Good(Calls[c1].requests[i1])
                   /\ Calls[c2].ret.found => Calls[c2].ret.fileName = p
              /\ ( /\ Calls[c1].ret.found /\ Calls[c1].ret.fileName = p
                   /\ Calls[c2].ret.found /\ Calls[c2].ret.fileName = p ) =>
                   Calls[c2].ret = Calls[c1].ret

\* C13 witness: a search has loaded a file and returned its Result; the load
\* by name of that file that follows has returned the same object without
\* any load-and-parse request.
C13_Witness ==
  /\ parameters.cache /\ LoadDone /\ HasPrevious
  /\ Previous.op = "search" /\ Previous.ret.found
  /\ requireResolve(fs, gen.arg) = Previous.ret.fileName
  /\ \E i \in DOMAIN Previous.requests :
       /\ Previous.requests[i].kind = "loadConfigFile"
       /\ Previous.requests[i].path = Previous.ret.fileName
  /\ NoClearBetween(Len(Calls) - 1, Len(Calls))
  /\ gen.ret = Previous.ret
  /\ LoadRequests(Len(Calls)) = {}


\* ------------------------------------------------------------------- C14
\* The directories the requests of a search examine.
Examined == {TargetDir(requests[i]) : i \in Examining}
\* The directories in which the descriptions look for their files, from the
\* folders the search has tried.
Looked == {DirOf(tried[k][1], tried[k][2]) : k \in DOMAIN tried}

Failed == \E j \in DOMAIN logged : logged[j].level = "error"
\* The keys of contentCache that a step writes.
Written ==
  {p \in DOMAIN contentCache' :
     p \notin DOMAIN contentCache \/ contentCache'[p] # contentCache[p]}

\* C15: a load by name that fails has made no load-and-parse that completed,
\* and the step that ends it leaves both caches as they were; no step of a
\* load by name writes folderCache, or contentCache under another key than a
\* file path; and a step (of any call) writes contentCache under a file path
\* only with the cache on and for a load-and-parse request of the call, for
\* that path, that has completed, the value being what that loading gave.
C15_NoWriteOnFailure ==
  /\ [](LoadDone /\ Failed => \A i \in LoadRequests(Len(Calls)) : ~Completes(requests[i]))
  /\ [][ clears' = clears =>
           /\ \A p \in Written \cap DOMAIN fs.content :
                /\ parameters.cache
                /\ \E i \in DOMAIN requests' :
                     /\ requests'[i].kind = "loadConfigFile"
                     /\ requests'[i].path = p
                     /\ Completes(requests'[i])
                     /\ contentCache'[p].found <=> Good(requests'[i])
           /\ gen'.op = "load" =>
                /\ folderCache' = folderCache
                /\ Written \subseteq DOMAIN fs.content
           /\ (gen'.op = "load" /\ gen'.pc = "done" /\ Failed') =>
                /\ folderCache' = folderCache
                /\ contentCache' = contentCache ]_vars

\* C15 witness: with the cache on and not empty, a load by name has failed
\* on the content of its file, and the file's path is not in the cache.
C15_Witness ==
  /\ parameters.cache /\ LoadDone /\ Failed
  /\ LoadRequests(Len(Calls)) # {}
  /\ DOMAIN contentCache # {} /\ DOMAIN folderCache # {}
  /\ gen.file \notin DOMAIN contentCache


\* ------------------------------------------------------------------- C16
\* The directory-listing requests of call c.
Listings(c) ==
  {i \in DOMAIN Calls[c].requests : Calls[c].requests[i].kind = "folderContent"}
\* Request i1 of call c1 and request i2 of call c2, a later one, ask for the
\* listing of the same directory, with no clearCache from the start of c1 to
\* the end of c2.
ListedTwice(c1, i1, c2, i2) ==
  /\ c1 < c2 \/ (c1 = c2 /\ i1 < i2)
  /\ resolve(Calls[c1].requests[i1].path) = resolve(Calls[c2].requests[i2].path)
  /\ NoClearBetween(c1, c2)

\* C16 (as claimed): with the cache on, no two listing requests are issued
\* for the same directory without a clearCache in between.
C16_OneListing ==
  parameters.cache =>
    \A c2 \in DOMAIN Calls : \A c1 \in 1..c2 :
      \A i1 \in Listings(c1) : \A i2 \in Listings(c2) :
        ~ListedTwice(c1, i1, c2, i2)

\* C16 (amended): with the cache on, once a listing request for a directory
\* has been answered with the listing, no listing request is issued for that
\* directory before the next clearCache.
C16_OneListingAnswered ==
  parameters.cache =>
    \A c2 \in DOMAIN Calls : \A c1 \in 1..c2 :
      \A i1 \in Listings(c1) : \A i2 \in Listings(c2) :
        Fulfil(fs, Calls[c1].requests[i1]).ok => ~ListedTwice(c1, i1, c2, i2)

\* C16 witness: with the cache on, a search has matched two basename
\* descriptions in a directory that the search before it had listed, and has
\* issued no listing request for that directory.
C16_Witness ==
  /\ parameters.cache /\ SearchDone /\ HasPrevious
  /\ NoClearBetween(Len(Calls) - 1, Len(Calls))
  /\ \E i1 \in Listings(Len(Calls) - 1) :
       LET D == resolve(Previous.requests[i1].path)
       IN /\ Fulfil(fs, Previous.requests[i1]).ok
          /\ \E k, h \in DOMAIN tried :
               /\ k # h
               /\ DirOf(tried[k][1], tried[k][2]) = D
               /\ DirOf(tried[h][1], tried[h][2]) = D
          /\ \A i2 \in Listings(Len(Calls)) : resolve(requests[i2].path) # D


\* ------------------------------------------------------------------- C17
\* The pending request of the call is fulfilled: what a Fulfilled step does
\* to the count of the answers (no other step of Next adds one to it).
Answer == gen.pc \in Suspended /\ answered' = answered + 1
\* Every request issued is fulfilled in the end, with a value or an error:
\* the driver does not leave a suspended generator waiting for ever.
FairSpec == Spec /\ WF_answered(Answer)

\* The folders the search has entered, in the order of entering.
RECURSIVE EnteredUpTo(_)
EnteredUpTo(n) ==
  IF n = 0 THEN << >>
  ELSE IF logged[n].id = "searchInFolder" THEN Append(EnteredUpTo(n - 1), logged[n].param)
  ELSE EnteredUpTo(n - 1)
EnteredFolders == EnteredUpTo(Len(logged))

\* C17: a search that is suspended on a request gets to its end; the folders
\* it enters are each the parent of the one before and another folder than
\* it, so that no folder is entered twice and the root is the last one at
\* the latest, wherever the stop directory is.
C17_Termination ==
  /\ [](gen.op = "search" =>
          /\ \A k \in 1..(Len(EnteredFolders) - 1) :
               /\ EnteredFolders[k + 1] = dirname(EnteredFolders[k])
               /\ EnteredFolders[k + 1] # EnteredFolders[k]
          /\ Len(EnteredFolders) <= Len(resolve(gen.arg)) + 1)
  /\ (gen.op = "search" /\ gen.pc \in Suspended) ~> SearchDone

\* C17 witness: a search from outside the stop directory is over, after it
\* has entered the root.
C17_Witness ==
  /\ SearchDone /\ HasSearchRoot
  /\ ~IsUnder(SearchRoot, parameters.searchStop)
  /\ Len(EnteredFolders) >= 2
  /\ EnteredFolders[Len(EnteredFolders)] = Root


\* ------------------------------------------------------------------- C18
\* What the call gives on an instance of the same parameters with the cache
\* off.
Uncached(op, arg) ==
  LET m == NewInstance([parameters EXCEPT !.cache = FALSE])
  IN IF op = "search" THEN syncSearch(m, fs, arg) ELSE syncLoad(m, fs, arg)
\* Two outcomes are the same: not found both, or the same file with the same
\* value.
SameOutcome(a, b) ==
  /\ a.found = b.found
  /\ a.found => (a.fileName = b.fileName /\ a.loader = b.loader)
\* No clearCache came while a call was in flight.
Serialized == \A c \in DOMAIN Calls : ~Calls[c].cleared.inFlight

\* C18 (as claimed): with the calls serialized, every call returns the
\* outcome that the same call returns with the cache off.
C18_CacheTransparency ==
  (gen.pc = "done" /\ Serialized) =>
    SameOutcome(gen.ret, Uncached(gen.op, gen.arg).ret)


\* ------------------------------------------------------------------- C19
\* C19 (as claimed): a call of search.sync, load.sync, search.async or
\* load.async of an instance runs on that instance: it leaves every other
\* instance as it was, and does to the instance, and returns, what the
\* generator does and returns with the instance's own parameters and caches.
C19_InstanceIsolation ==
  [][ (calls' = calls + 1 /\ last'.on # 0 /\ last'.alternate) =>
        LET i == last'.on
        IN /\ \A j \in DOMAIN instances : j # i => instances'[j] = instances[j]
           /\ instances'[i].m = RunCall(instances[i].m, last'.op, last'.arg)
           /\ last'.ret = instances'[i].m.ret ]_vars


\* ------------------------------------------------------------------- C20
\* Request k of the call was answered before the latest clearCache that was
\* called during the call.
DeliveredBeforeClear(k) == k <= cleared.delivered
\* Folder F was entered, and left for its parent folder, before that
\* clearCache: whatever the search found out about F, it had by then.
SearchedBeforeClear(F) ==
  \E j, k \in Entered :
    j < k /\ k <= cleared.logged /\ logged[j].param = F /\ logged[k].param # F
\* The latest request of the given kind for path p, if the call made one.
LatestFor(kind, p) ==
  {k \in DOMAIN requests :
     /\ requests[k].kind = kind /\ resolve(requests[k].path) = p
     /\ \A n \in DOMAIN requests :
          (requests[n].kind = kind /\ resolve(requests[n].path) = p) => n <= k}

\* C20 (as claimed): when a call during which clearCache was called is over,
\* folderCache holds only listings answered after the clearCache, and
\* contentCache holds, under a file path, only what a load-and-parse
\* answered after the clearCache gave, and under a folder only the result of
\* a search of that folder that was not over before the clearCache.
C20_ClearInFlight ==
  (gen.pc \in Finished /\ driver = "async" /\ cleared.inFlight) =>
    /\ \A D \in DOMAIN folderCache :
         \A k \in LatestFor("folderContent", D) : ~DeliveredBeforeClear(k)
    /\ \A p \in DOMAIN contentCache :
         /\ \A k \in LatestFor("loadConfigFile", p) : ~DeliveredBeforeClear(k)
         /\ ~SearchedBeforeClear(p)


\* ------------------------------------------------------------------- C21
\* The option is not given to the latest construction: there is no options
\* object, or the object has no such key.
Omitted(key) ==
  ~constructed.options.object \/ key \notin DOMAIN constructed.options.entries

\* C21 (as claimed): a construction with no options object, or with options
\* that omit modulePaths, succeeds, and the parameters of the instance are
\* [current working directory] as module search paths and, for each option
\* omitted: cache true, stop directory the user's home, mode async, files the
\* default file descriptions for the name.
C21_ConstructionDefaults ==
  (constructed.made /\ Omitted("modulePaths")) =>
    /\ ~constructed.raised
    /\ constructed.parameters.modulePaths = <<Cwd>>
    /\ Omitted("cache") => constructed.parameters.cache = TRUE
    /\ Omitted("searchStop") => constructed.parameters.searchStop = Home
    /\ Omitted("mode") => constructed.parameters.mode = "async"
    /\ Omitted("files") => constructed.parameters.files = defaultFiles(InstanceName)

=============================================================================
